---- MODULE Spec2Model ----
(***************************************************************************)
(* Model of src/src/App.tsx: the per-ledger accumulator `lastNodes` that   *)
(* transactionHandler folds transaction metadata into, and the React state *)
(* (`nodes`, `ledgerIndex`) that ledgerClosedHandler publishes.            *)
(***************************************************************************)
EXTENDS Integers, Sequences, FiniteSets, TLC

\* ------------------------------------------------------------------ bounds
MaxLedger == 2      \* ledger indices carried by events: 1..MaxLedger
MaxNodes == 2       \* longest AffectedNodes list of one transaction
MaxCatalog == 2     \* most entry-type names of one server_definitions response
MaxList == 3        \* longest list handed to uniqNodes on its own
MaxEffects == 2     \* runs of the effect (mounts of App) over the shared client

\* ------------------------------------------------------------------ inputs
\* The ledger entries transactions touch.  A ledger entry's index is derived
\* from its type and owner, so one index always comes with the same type.
LedgerEntries ==
  { [LedgerEntryType |-> "AccountRoot", index |-> "A"],
    [LedgerEntryType |-> "Offer", index |-> "B"] }
Identities == {e.index : e \in LedgerEntries}
EntryTypes == {e.LedgerEntryType : e \in LedgerEntries}
NodeTags == {"CreatedNode", "ModifiedNode", "DeletedNode"}
Kinds == {"created", "modified", "deleted"}

\* One element of tx.meta.AffectedNodes: a tagged node with its entry type
\* and its LedgerIndex (the identity of the ledger entry).
AffectedNode ==
  { [tag |-> t, LedgerEntryType |-> e.LedgerEntryType, LedgerIndex |-> e.index] :
      t \in NodeTags, e \in LedgerEntries }

RECURSIVE SeqsUpTo(_, _)
SeqsUpTo(S, n) ==
  IF n = 0 THEN {<<>>}
  ELSE LET shorter == SeqsUpTo(S, n - 1)
       IN shorter \cup {Append(s, x) : s \in {t \in shorter : Len(t) = n - 1}, x \in S}

AffectedNodeLists == SeqsUpTo(AffectedNode, MaxNodes)

LedgerIndices == 1..MaxLedger

\* TransactionStream events: with metadata, or without (tx.meta undefined).
TxWithMeta == [ledger_index : LedgerIndices, hasMeta : {TRUE}, AffectedNodes : AffectedNodeLists]
TxNoMeta == [ledger_index : LedgerIndices, hasMeta : {FALSE}, AffectedNodes : {<<>>}]
TransactionStream == TxWithMeta \cup TxNoMeta

\* LedgerStream events.
LedgerStream == [ledger_index : LedgerIndices]

\* ------------------------------------------------------------------ state
VARIABLES
  lastNodes,    \* the effect's accumulator object (App.tsx:49)
  nodes,        \* React state `nodes`: a REFERENCE to an object of the heap
  ledgerIndex,  \* React state `ledgerIndex`: <<>> (undefined) or <<n>>
  hiIndex,      \* history: highest ledger index a folded transaction carried
  hiEffects,    \* history: per kind, identities folded from transactions carrying hiIndex
  sinceClose,   \* history: per kind, identities folded since the previous ledger-closed event
  closedEvent,  \* history: ledger_index of the last ledger-closed event, 0 before the first
  ledgerEntries, \* React state `ledgerEntries`
  catalog,      \* history: the server_definitions response, once received
  arg,          \* the argument of a function applied on its own
  result,       \* what that function returned
  effects,      \* per run of the effect: how far it got, and its accumulator
  listeners,    \* the runs whose two handlers are registered on `client`, in order
  publishedBy   \* the run whose accumulator the last setNodes was given, 0 before

progVars == <<lastNodes, nodes, ledgerIndex>>
histVars == <<hiIndex, hiEffects, sinceClose>>
catVars == <<ledgerEntries, catalog>>
callVars == <<arg, result>>
connVars == <<effects, listeners, publishedBy>>
\* What the two stream handlers never touch.
sideVars == <<catVars, callVars, connVars>>
vars ==
  <<lastNodes, nodes, ledgerIndex, hiIndex, hiEffects, sinceClose, closedEvent,
    ledgerEntries, catalog, arg, result, effects, listeners, publishedBy>>

\* ------------------------------------------------------------------ uniqNodes
\* A JS Map as the sequence of its entries in insertion order.  Map.set on a
\* key already present replaces the value and keeps the key's position.
\* Variant: a key already present keeps its first value.
MapSetKeepsFirst(m, k, v) ==
  IF \E i \in 1..Len(m) : m[i].key = k THEN m
  ELSE Append(m, [key |-> k, value |-> v])

MapSet(m, k, v) ==
  IF \E i \in 1..Len(m) : m[i].key = k
    THEN [i \in 1..Len(m) |-> IF m[i].key = k THEN [key |-> k, value |-> v] ELSE m[i]]
    ELSE Append(m, [key |-> k, value |-> v])

\* new Map(entries): the entries are set one after the other; NewMap(ns, n)
\* is the Map after the first n nodes, each under its index.
RECURSIVE NewMap(_, _)
NewMap(ns, n) ==
  IF n = 0 THEN <<>>
  ELSE MapSet(NewMap(ns, n - 1), ns[n].index, ns[n])

MapValues(m) == [i \in 1..Len(m) |-> m[i].value]

\* Variant: no deduplication.
uniqNodesKeepsAll(ns) == ns

uniqNodes(ns) == MapValues(NewMap(ns, Len(ns)))

\* ------------------------------------------------------------------ transactionHandler
isCreatedNode(value) == value.tag = "CreatedNode"
isModifiedNode(value) == value.tag = "ModifiedNode"
isDeletedNode(value) == value.tag = "DeletedNode"

createdNodes(tx) == SelectSeq(tx.AffectedNodes, isCreatedNode)
modifiedNodes(tx) == SelectSeq(tx.AffectedNodes, isModifiedNode)

\* Variant: the deleted nodes are filtered with the predicate of the modified.
deletedNodessByModified(tx) == SelectSeq(tx.AffectedNodes, isModifiedNode)

deletedNodess(tx) == SelectSeq(tx.AffectedNodes, isDeletedNode)

\* The projection of a tagged node into { LedgerEntryType, index }.
NodeRecords(ns) ==
  [i \in 1..Len(ns) |-> [LedgerEntryType |-> ns[i].LedgerEntryType, index |-> ns[i].LedgerIndex]]

\* Variant: an equal index counts as a new ledger.
newNodeOnEqual(ln, tx) == ln.ledgerIndex <= tx.ledger_index

newNode(ln, tx) == ln.ledgerIndex < tx.ledger_index

\* Variant: the index is stored but the collections are never cleared.
AfterResetKeepsCollections(ln, tx) == [ln EXCEPT !.ledgerIndex = tx.ledger_index]

\* lines 68-75: the index is stored, the collections are cleared on newNode.
AfterReset(ln, tx) ==
  IF newNode(ln, tx)
    THEN [ledgerIndex |-> tx.ledger_index, created |-> <<>>, modified |-> <<>>, deleted |-> <<>>]
    ELSE [ln EXCEPT !.ledgerIndex = tx.ledger_index]

\* Variant: the projected records replace the collections.
AfterPushReplaces(ln, tx) ==
  [ln EXCEPT !.created = NodeRecords(createdNodes(tx)),
             !.modified = NodeRecords(modifiedNodes(tx)),
             !.deleted = NodeRecords(deletedNodess(tx))]

\* lines 76-93: push the projected records.
AfterPush(ln, tx) ==
  [ln EXCEPT !.created = ln.created \o NodeRecords(createdNodes(tx)),
             !.modified = ln.modified \o NodeRecords(modifiedNodes(tx)),
             !.deleted = ln.deleted \o NodeRecords(deletedNodess(tx))]

\* Variant: only created is deduplicated.
AfterUniqCreatedOnly(ln) == [ln EXCEPT !.created = uniqNodes(ln.created)]

\* Variant: one Map for the three collections, so that an identity is kept
\* in the first collection that holds it only.
AfterUniqAcrossKinds(ln) ==
  LET c == uniqNodes(ln.created)
      inC(r) == \E i \in 1..Len(c) : c[i].index = r.index
      m == SelectSeq(uniqNodes(ln.modified), LAMBDA r : ~inC(r))
      inM(r) == \E i \in 1..Len(m) : m[i].index = r.index
      d == SelectSeq(uniqNodes(ln.deleted), LAMBDA r : ~inC(r) /\ ~inM(r))
  IN [ln EXCEPT !.created = c, !.modified = m, !.deleted = d]

\* lines 95-97: deduplicate each collection.
AfterUniq(ln) ==
  [ln EXCEPT !.created = uniqNodes(ln.created),
             !.modified = uniqNodes(ln.modified),
             !.deleted = uniqNodes(ln.deleted)]

\* Variant: the index is stored before the metadata is looked at.
AfterTransactionIndexFirst(ln, tx) ==
  IF ~tx.hasMeta THEN [ln EXCEPT !.ledgerIndex = tx.ledger_index]
  ELSE AfterUniq(AfterPush(AfterReset(ln, tx), tx))

\* The accumulator after transactionHandler(tx) has run on accumulator ln.
AfterTransaction(ln, tx) ==
  IF ~tx.hasMeta THEN ln
  ELSE AfterUniq(AfterPush(AfterReset(ln, tx), tx))

transactionHandler(tx) ==
  /\ lastNodes' = AfterTransaction(lastNodes, tx)
  /\ UNCHANGED <<nodes, ledgerIndex>>

\* ------------------------------------------------------------------ ledgerClosedHandler
\* Variant: the accumulator is cleared once it is published.
ledgerClosedHandlerResets(ledger) ==
  /\ ledgerIndex' = <<ledger.ledger_index - 1>>
  /\ nodes' = "lastNodes"
  /\ lastNodes' = [lastNodes EXCEPT !.created = <<>>, !.modified = <<>>, !.deleted = <<>>]

\* Variant: the event's own index is published.
ledgerClosedHandlerNoDecrement(ledger) ==
  /\ ledgerIndex' = <<ledger.ledger_index>>
  /\ nodes' = "lastNodes"
  /\ UNCHANGED lastNodes

\* setNodes(lastNodes) stores the accumulator object itself, not a copy.
ledgerClosedHandler(ledger) ==
  /\ ledgerIndex' = <<ledger.ledger_index - 1>>
  /\ nodes' = "lastNodes"
  /\ UNCHANGED lastNodes

\* ------------------------------------------------------------------ heap
initialNodes == [ledgerIndex |-> 0, created |-> <<>>, modified |-> <<>>, deleted |-> <<>>]

\* No run of the effect has started.
NoEffects == [i \in 1..MaxEffects |-> [phase |-> "none", lastNodes |-> initialNodes]]

\* The object a reference of React state `nodes` denotes.
Deref(ref) == IF ref = "lastNodes" THEN lastNodes ELSE initialNodes

\* ------------------------------------------------------------------ history
Ids(coll) == {coll[i].index : i \in 1..Len(coll)}
Records(coll) == {coll[i] : i \in 1..Len(coll)}
NoDuplicates(coll) ==
  \A i, j \in 1..Len(coll) : i # j => coll[i].index # coll[j].index

TagOf(k) ==
  IF k = "created" THEN "CreatedNode"
  ELSE IF k = "modified" THEN "ModifiedNode" ELSE "DeletedNode"

\* The effect records of kind k that the metadata of tx describes.
EffectsOf(tx, k) ==
  { [LedgerEntryType |-> tx.AffectedNodes[i].LedgerEntryType,
     index |-> tx.AffectedNodes[i].LedgerIndex] :
      i \in {j \in 1..Len(tx.AffectedNodes) : tx.AffectedNodes[j].tag = TagOf(k)} }

TxIds(tx) == [k \in Kinds |-> {r.index : r \in EffectsOf(tx, k)}]

NoIds == [k \in Kinds |-> {}]

\* hiIndex, hiEffects: the newest ledger a folded transaction carried, and the
\* identities of the effects of the transactions that carried it.
RecordHi(tx) ==
  /\ hiIndex' = IF tx.hasMeta /\ tx.ledger_index > hiIndex THEN tx.ledger_index ELSE hiIndex
  /\ hiEffects' =
       IF ~tx.hasMeta \/ tx.ledger_index < hiIndex THEN hiEffects
       ELSE IF tx.ledger_index > hiIndex THEN TxIds(tx)
       ELSE [k \in Kinds |-> hiEffects[k] \cup TxIds(tx)[k]]

\* sinceClose: the identities of the effects delivered since the previous
\* ledger-closed event.
RecordSince(tx) ==
  sinceClose' =
    IF tx.hasMeta THEN [k \in Kinds |-> sinceClose[k] \cup TxIds(tx)[k]] ELSE sinceClose

\* ------------------------------------------------------------------ specification
Init ==
  /\ lastNodes = [ledgerIndex |-> 0, created |-> <<>>, modified |-> <<>>, deleted |-> <<>>]
  /\ nodes = "initialNodes"
  /\ ledgerIndex = <<>>
  /\ hiIndex = 0
  /\ hiEffects = NoIds
  /\ sinceClose = NoIds
  /\ closedEvent = 0
  /\ ledgerEntries = <<>>
  /\ catalog = [received |-> FALSE, names |-> <<>>]
  /\ arg = <<>>
  /\ result = [done |-> FALSE, value |-> <<>>]
  /\ effects = NoEffects
  /\ listeners = <<>>
  /\ publishedBy = 0

\* The program.
OnTransaction ==
  \E tx \in TransactionStream :
    transactionHandler(tx) /\ UNCHANGED <<histVars, closedEvent, sideVars>>

OnLedgerClosed ==
  \E ledger \in LedgerStream :
    /\ ledgerClosedHandler(ledger)
    /\ closedEvent' = ledger.ledger_index
    /\ UNCHANGED <<histVars, sideVars>>

Next == OnTransaction \/ OnLedgerClosed

Spec == Init /\ [][Next]_vars

\* The program, with the newest ledger and its effects recorded.
HiTransaction ==
  \E tx \in TransactionStream :
    transactionHandler(tx) /\ RecordHi(tx) /\ UNCHANGED <<sinceClose, closedEvent, sideVars>>

HiLedgerClosed ==
  \E ledger \in LedgerStream :
    /\ ledgerClosedHandler(ledger)
    /\ closedEvent' = ledger.ledger_index
    /\ UNCHANGED <<histVars, sideVars>>

HiNext == HiTransaction \/ HiLedgerClosed

HiSpec == Init /\ [][HiNext]_vars

\* The program, with the effects delivered since the previous close recorded.
ClTransaction ==
  \E tx \in TransactionStream :
    transactionHandler(tx) /\ RecordSince(tx)
      /\ UNCHANGED <<hiIndex, hiEffects, closedEvent, sideVars>>

ClLedgerClosed ==
  \E ledger \in LedgerStream :
    /\ ledgerClosedHandler(ledger)
    /\ sinceClose' = NoIds
    /\ closedEvent' = ledger.ledger_index
    /\ UNCHANGED <<hiIndex, hiEffects, sideVars>>

ClNext == ClTransaction \/ ClLedgerClosed

ClSpec == Init /\ [][ClNext]_vars

\* The program on a stream whose transactions with metadata arrive with
\* non-decreasing ledger indices, with the newest ledger and its effects
\* recorded.
InOrder(tx) == tx.hasMeta => tx.ledger_index >= hiIndex

OrdTransaction ==
  \E tx \in TransactionStream :
    /\ InOrder(tx)
    /\ transactionHandler(tx)
    /\ RecordHi(tx)
    /\ UNCHANGED <<sinceClose, closedEvent, sideVars>>

OrdLedgerClosed ==
  \E ledger \in LedgerStream :
    /\ ledgerClosedHandler(ledger)
    /\ closedEvent' = ledger.ledger_index
    /\ UNCHANGED <<histVars, sideVars>>

OrdNext == OrdTransaction \/ OrdLedgerClosed

OrdSpec == Init /\ [][OrdNext]_vars

\* The snapshot the consumer reads through React state `nodes`.
Published == Deref(nodes)

\* ------------------------------------------------------------------ nodesByLedgerEntryType
\* Variant: the modified list is filtered out of nodes.created.
nodesByLedgerEntryTypeCreatedTwice(entry) ==
  [created |-> SelectSeq(Published.created, LAMBDA node : node.LedgerEntryType = entry),
   modified |-> SelectSeq(Published.created, LAMBDA node : node.LedgerEntryType = entry),
   deleted |-> SelectSeq(Published.deleted, LAMBDA node : node.LedgerEntryType = entry)]

nodesByLedgerEntryType(entry) ==
  [created |-> SelectSeq(Published.created, LAMBDA node : node.LedgerEntryType = entry),
   modified |-> SelectSeq(Published.modified, LAMBDA node : node.LedgerEntryType = entry),
   deleted |-> SelectSeq(Published.deleted, LAMBDA node : node.LedgerEntryType = entry)]

\* The classifier on its own: any published snapshot, any entry-type name.
\* Two entries share a type, so that a result can hold two records in order.
ClassifierEntries == LedgerEntries \cup {[LedgerEntryType |-> "Offer", index |-> "C"]}

\* The collections the accumulator can hold over these entries.
UniqLists ==
  {l \in SeqsUpTo(ClassifierEntries, Cardinality(ClassifierEntries)) : NoDuplicates(l)}

Snapshots ==
  [ledgerIndex : LedgerIndices, created : UniqLists, modified : UniqLists, deleted : UniqLists]

\* The names the render asks for: the types in use and one no record has.
EntryNames == EntryTypes \cup {"Check"}

ClassifyInit ==
  /\ lastNodes \in Snapshots
  /\ nodes = "lastNodes"
  /\ ledgerIndex = <<lastNodes.ledgerIndex>>
  /\ closedEvent = lastNodes.ledgerIndex + 1
  /\ hiIndex = 0 /\ hiEffects = NoIds /\ sinceClose = NoIds
  /\ ledgerEntries = <<>>
  /\ catalog = [received |-> FALSE, names |-> <<>>]
  /\ arg = <<>>
  /\ result = [done |-> FALSE, value |-> <<>>]
  /\ effects = NoEffects
  /\ listeners = <<>>
  /\ publishedBy = 0

Classify ==
  \E entry \in EntryNames :
    /\ arg' = entry
    /\ result' = [done |-> TRUE, value |-> nodesByLedgerEntryType(entry)]
    /\ UNCHANGED <<progVars, histVars, closedEvent, catVars, connVars>>

ClassifySpec == ClassifyInit /\ [][Classify]_vars

\* ------------------------------------------------------------------ extraction
\* What transactionHandler pushes for tx: per kind, the records projected
\* from the filtered nodes (lines 57-65 and the maps of lines 76-93).
Extracted(tx) ==
  [created |-> NodeRecords(createdNodes(tx)),
   modified |-> NodeRecords(modifiedNodes(tx)),
   deleted |-> NodeRecords(deletedNodess(tx))]

\* The extraction on its own: any transaction with metadata.
ExtractInit ==
  /\ lastNodes = initialNodes
  /\ nodes = "initialNodes"
  /\ ledgerIndex = <<>>
  /\ closedEvent = 0
  /\ hiIndex = 0 /\ hiEffects = NoIds /\ sinceClose = NoIds
  /\ ledgerEntries = <<>>
  /\ catalog = [received |-> FALSE, names |-> <<>>]
  /\ arg \in TxWithMeta
  /\ result = [done |-> FALSE, value |-> <<>>]
  /\ effects = NoEffects
  /\ listeners = <<>>
  /\ publishedBy = 0

Extract ==
  /\ ~result.done
  /\ result' = [done |-> TRUE, value |-> Extracted(arg)]
  /\ UNCHANGED <<progVars, histVars, closedEvent, catVars, arg, connVars>>

ExtractSpec == ExtractInit /\ [][Extract]_vars

\* ------------------------------------------------------------------ entry-type catalog
ignoredLedgerEntries ==
  <<"Invalid", "Any", "Child", "Nickname", "Contract", "GeneratorMap">>

nonEnabledLedgerEntries ==
  <<"Bridge", "XChainOwnedClaimID", "XChainOwnedCreateAccountClaimID", "DID">>

\* Array.prototype.includes
includes(array, x) == \E i \in 1..Len(array) : array[i] = x

\* Variant: the list is stored without the not-yet-enabled names as well.
StoredEntriesWithoutNonEnabled(names) ==
  SelectSeq(names, LAMBDA entry : ~includes(ignoredLedgerEntries, entry)
                                  /\ ~includes(nonEnabledLedgerEntries, entry))

\* lines 117-122: Object.keys(...) filtered by the ignore-list.
StoredEntries(names) ==
  SelectSeq(names, LAMBDA entry : ~includes(ignoredLedgerEntries, entry))

\* lines 116-124: the server_definitions response arrives.
serverDefinitionsHandler(names) ==
  /\ ledgerEntries' = StoredEntries(names)
  /\ UNCHANGED <<lastNodes, nodes, ledgerIndex>>

\* lines 215-216: the list the render maps over.
DisplayedEntries ==
  SelectSeq(ledgerEntries, LAMBDA entry : ~includes(nonEnabledLedgerEntries, entry))

\* The keys of LEDGER_ENTRY_TYPES: distinct names, none when the field is absent.
CatalogNames ==
  {ignoredLedgerEntries[i] : i \in 1..Len(ignoredLedgerEntries)}
    \cup {nonEnabledLedgerEntries[i] : i \in 1..Len(nonEnabledLedgerEntries)}
    \cup EntryTypes

Catalogs ==
  {names \in SeqsUpTo(CatalogNames, MaxCatalog) :
     \A i, j \in 1..Len(names) : i # j => names[i] # names[j]}

\* Transactions of one ledger that touch entries of a type of either list.
ListedEntries ==
  { [LedgerEntryType |-> "DID", index |-> "D"],
    [LedgerEntryType |-> "Nickname", index |-> "N"] }

ListedTxs ==
  { [ledger_index |-> 1, hasMeta |-> TRUE,
     AffectedNodes |-> <<[tag |-> t, LedgerEntryType |-> e.LedgerEntryType,
                          LedgerIndex |-> e.index]>>] :
      t \in NodeTags, e \in ListedEntries }

CatServerDefinitions ==
  \E names \in Catalogs :
    /\ ~catalog.received
    /\ serverDefinitionsHandler(names)
    /\ catalog' = [received |-> TRUE, names |-> names]
    /\ UNCHANGED <<histVars, closedEvent, callVars, connVars>>

CatTransaction ==
  \E tx \in ListedTxs :
    /\ transactionHandler(tx)
    /\ RecordHi(tx)
    /\ UNCHANGED <<sinceClose, closedEvent, sideVars>>

CatNext == CatServerDefinitions \/ CatTransaction

CatalogSpec == Init /\ [][CatNext]_vars

\* ------------------------------------------------------------------ uniqNodes on its own
\* Any list of records: the same index may come with either entry type.
UniqRecords == [LedgerEntryType : EntryTypes, index : Identities]

UniqInit ==
  /\ lastNodes = initialNodes
  /\ nodes = "initialNodes"
  /\ ledgerIndex = <<>>
  /\ closedEvent = 0
  /\ hiIndex = 0 /\ hiEffects = NoIds /\ sinceClose = NoIds
  /\ ledgerEntries = <<>>
  /\ catalog = [received |-> FALSE, names |-> <<>>]
  /\ arg \in SeqsUpTo(UniqRecords, MaxList)
  /\ result = [done |-> FALSE, value |-> <<>>]
  /\ effects = NoEffects
  /\ listeners = <<>>
  /\ publishedBy = 0

ApplyUniqNodes ==
  /\ ~result.done
  /\ result' = [done |-> TRUE, value |-> uniqNodes(arg)]
  /\ UNCHANGED <<progVars, histVars, closedEvent, catVars, arg, connVars>>

UniqSpec == UniqInit /\ [][ApplyUniqNodes]_vars

\* ------------------------------------------------------------------ the effect and the shared client
\* `client` is one object of the module (line 30); every run of the effect
\* has its own lastNodes and its own two handlers (lines 49-103).  A run is
\*   "none"            not started
\*   "connecting"      client.connect() called, its promise pending
\*   "registered"      the promise resolved, the handlers are on the client
\*   "cleanedEarly"    the cleanup ran while the promise was pending
\*   "cleaned"         the cleanup ran after the handlers were registered
\*   "registeredLate"  the promise resolved after the cleanup had run
CleanedPhases == {"cleanedEarly", "cleaned", "registeredLate"}

Cleaned(i) == effects[i].phase \in CleanedPhases

Registered(i) == \E p \in 1..Len(listeners) : listeners[p] = i

\* client.off(event, handler): the handler's registrations are removed, none
\* if it has none.
off(ls, i) == SelectSeq(ls, LAMBDA j : j # i)

\* The transactions the connection delivers: one created entry each.
ConnTxs ==
  {tx \in TxWithMeta :
     Len(tx.AffectedNodes) = 1 /\ tx.AffectedNodes[1].tag = "CreatedNode"}

\* lines 48-54, 105: a run of the effect starts once the cleanup of the
\* run before it has run.
RunEffect(i) ==
  /\ effects[i].phase = "none"
  /\ i > 1 => Cleaned(i - 1)
  /\ effects' = [effects EXCEPT ![i] = [phase |-> "connecting", lastNodes |-> initialNodes]]
  /\ UNCHANGED <<listeners, publishedBy>>
  /\ UNCHANGED <<progVars, histVars, closedEvent, catVars, callVars>>

\* lines 105-107: the promise of client.connect() resolves.
ConnectResolved(i) ==
  /\ effects[i].phase \in {"connecting", "cleanedEarly"}
  /\ listeners' = Append(listeners, i)
  /\ effects' = [effects EXCEPT ![i].phase =
                   IF effects[i].phase = "connecting" THEN "registered" ELSE "registeredLate"]
  /\ UNCHANGED publishedBy
  /\ UNCHANGED <<progVars, histVars, closedEvent, catVars, callVars>>

\* lines 126-129: the cleanup of a run.
Cleanup(i) ==
  /\ effects[i].phase \in {"connecting", "registered"}
  /\ listeners' = off(listeners, i)
  /\ effects' = [effects EXCEPT ![i].phase =
                   IF effects[i].phase = "connecting" THEN "cleanedEarly" ELSE "cleaned"]
  /\ UNCHANGED publishedBy
  /\ UNCHANGED <<progVars, histVars, closedEvent, catVars, callVars>>

\* The client emits a transaction: every registered transactionHandler runs
\* on the accumulator of its own run.
EmitTransaction ==
  \E tx \in ConnTxs :
    /\ listeners # <<>>
    /\ effects' = [i \in 1..MaxEffects |->
                     IF Registered(i)
                       THEN [effects[i] EXCEPT !.lastNodes = AfterTransaction(effects[i].lastNodes, tx)]
                       ELSE effects[i]]
    /\ UNCHANGED <<listeners, publishedBy>>
    /\ UNCHANGED <<progVars, histVars, closedEvent, catVars, callVars>>

\* The client emits a ledger close: every registered ledgerClosedHandler runs
\* in the order of registration, the last one's setNodes stands.
EmitLedgerClosed ==
  \E ledger \in LedgerStream :
    /\ listeners # <<>>
    /\ ledgerIndex' = <<ledger.ledger_index - 1>>
    /\ publishedBy' = listeners[Len(listeners)]
    /\ closedEvent' = ledger.ledger_index
    /\ UNCHANGED <<effects, listeners>>
    /\ UNCHANGED <<lastNodes, nodes, histVars, catVars, callVars>>

ConnNext ==
  \/ \E i \in 1..MaxEffects : RunEffect(i)
  \/ \E i \in 1..MaxEffects : ConnectResolved(i)
  \/ \E i \in 1..MaxEffects : Cleanup(i)
  \/ EmitTransaction
  \/ EmitLedgerClosed

ConnSpec == Init /\ [][ConnNext]_vars

\* ------------------------------------------------------------------ claims

\* C1: across any sequence of transaction events the accumulator's
\* ledgerIndex never decreases: after every step ledgerIndex' >= ledgerIndex.
C1_LedgerIndexNeverDecreases ==
  [][lastNodes'.ledgerIndex >= lastNodes.ledgerIndex]_vars

\* C2: once the accumulator has been reset for ledger N, the effects folded in
\* from transactions carrying N stay in the collections until a transaction
\* carrying an index above N arrives, whatever equal or lower indices were
\* delivered in between.
C2_EffectsOfNewestLedgerStay ==
  \A k \in Kinds : hiEffects[k] \subseteq Ids(lastNodes[k])

\* C3: a transaction carrying an index above the accumulator's ledgerIndex
\* sets ledgerIndex to it and leaves in each collection exactly the
\* deduplicated effects of that one transaction; from {0, [], [], []} a
\* transaction with created = [A] yields {index, [A], [], []}.
ExampleTx ==
  [ledger_index |-> MaxLedger, hasMeta |-> TRUE,
   AffectedNodes |-> <<[tag |-> "CreatedNode", LedgerEntryType |-> "AccountRoot",
                        LedgerIndex |-> "A"]>>]

C3_ResetThenFold ==
  /\ \A tx \in TxWithMeta :
       tx.ledger_index > lastNodes.ledgerIndex =>
         \A after \in {AfterTransaction(lastNodes, tx)} :
            /\ after.ledgerIndex = tx.ledger_index
            /\ \A k \in Kinds :
                 Records(after[k]) = EffectsOf(tx, k) /\ NoDuplicates(after[k])
  /\ AfterTransaction(initialNodes, ExampleTx) =
       [ledgerIndex |-> MaxLedger,
        created |-> <<[LedgerEntryType |-> "AccountRoot", index |-> "A"]>>,
        modified |-> <<>>, deleted |-> <<>>]

C3_Witness ==
  /\ lastNodes = AfterTransaction(initialNodes, ExampleTx)
  /\ lastNodes.created # <<>>

\* C4: a transaction whose index is equal to or lower than the accumulator's
\* ledgerIndex clears nothing: each collection afterwards holds the identities
\* it held before together with the identities of the transaction's effects of
\* that kind.
C4_NoClearOnEqualOrLower ==
  \A tx \in TransactionStream :
    tx.ledger_index <= lastNodes.ledgerIndex =>
      \A after \in {AfterTransaction(lastNodes, tx)}, ids \in {TxIds(tx)} :
        \A k \in Kinds :
          /\ Ids(lastNodes[k]) \subseteq Ids(after[k])
          /\ (tx.hasMeta => ids[k] \subseteq Ids(after[k]))

\* More records than one transaction carries: a later transaction was folded
\* onto the contents of an earlier one.
C4_Witness ==
  Len(lastNodes.created) + Len(lastNodes.modified) + Len(lastNodes.deleted) > MaxNodes

\* C5: the snapshot handed to the consumer on a ledger-closed event is a copy:
\* later mutation of the accumulator does not change a snapshot already
\* published.
C5_PublishedSnapshotIsCopy ==
  [][(nodes = "lastNodes" /\ nodes' = nodes) => Published' = Published]_vars

\* C6: the snapshot published at a ledger-closed event contains only effects
\* of transactions delivered since the previous ledger-closed event.
C6_PublishesOnlySincePreviousClose ==
  [][ledgerIndex' # ledgerIndex =>
       \A k \in Kinds : Ids(Published'[k]) \subseteq sinceClose[k]]_vars

\* C7: in every reachable state each of created, modified and deleted holds at
\* most one record per identity.
C7_UniqueIdentities ==
  \A k \in Kinds : NoDuplicates(lastNodes[k])

\* Every identity is in created, each once, after at least two appearances.
C7_Witness ==
  /\ Ids(lastNodes.created) = Identities
  /\ Len(lastNodes.created) = Cardinality(Identities)
  /\ Len(lastNodes.modified) + Len(lastNodes.deleted) >= MaxNodes

\* C8: folding the same transaction twice in a row leaves ledgerIndex and the
\* three collections (records and order) as they are after folding it once.
C8_RedeliveryIdempotent ==
  [](\A tx \in TxWithMeta :
       \A once \in {AfterTransaction(lastNodes, tx)} :
         AfterTransaction(once, tx) = once)

\* A non-empty transaction has been folded and folding it again changes nothing.
C8_Witness ==
  \E tx \in TxWithMeta :
    /\ Len(tx.AffectedNodes) = MaxNodes
    /\ tx.ledger_index = lastNodes.ledgerIndex
    /\ \A k \in Kinds : TxIds(tx)[k] \subseteq Ids(lastNodes[k])
    /\ Len(lastNodes.created) = Cardinality(Identities)
    /\ AfterTransaction(lastNodes, tx) = lastNodes

\* C9: a transaction without metadata leaves ledgerIndex, created, modified
\* and deleted unchanged, whatever ledger index it carries.
C9_NoMetaIsNoOp ==
  \A tx \in TxNoMeta : AfterTransaction(lastNodes, tx) = lastNodes

\* A non-empty accumulator for which an event without metadata carries a
\* higher index.
C9_Witness ==
  /\ lastNodes.created # <<>>
  /\ lastNodes.deleted # <<>>
  /\ \E tx \in TxNoMeta : tx.ledger_index > lastNodes.ledgerIndex

\* C10: deduplication is per collection: an identity folded into two
\* collections within the same ledger is present in both, and a transaction
\* with no effect of one kind leaves that kind's collection as it is.
Held(ln, tx, ids) ==
  [k \in Kinds |-> (IF newNode(ln, tx) THEN {} ELSE Ids(ln[k])) \cup ids[k]]

C10_NoCrossKindMerge ==
  \A tx \in TxWithMeta :
    \A after \in {AfterTransaction(lastNodes, tx)}, ids \in {TxIds(tx)} :
      \A held \in {Held(lastNodes, tx, ids)}, now \in {[k \in Kinds |-> Ids(after[k])]} :
        \A k \in Kinds :
          /\ \A x \in ids[k] :
               \A other \in Kinds : x \in held[other] => x \in now[k] /\ x \in now[other]
          /\ (ids[k] = {} /\ ~newNode(lastNodes, tx)) => after[k] = lastNodes[k]

\* The same identity is in created, in modified and in deleted.
C10_Witness ==
  \E x \in Identities :
    x \in Ids(lastNodes.created) /\ x \in Ids(lastNodes.modified) /\ x \in Ids(lastNodes.deleted)

\* C11: a ledger-closed event leaves the accumulator unchanged: ledgerIndex,
\* created, modified and deleted of lastNodes are the same after every step
\* that publishes (a step that writes the React state or takes a new event).
C11_ClosePreservesAccumulator ==
  [][(ledgerIndex' # ledgerIndex \/ nodes' # nodes \/ closedEvent' # closedEvent)
       => lastNodes' = lastNodes]_vars

\* A ledger has been closed over a filled accumulator, which still holds more
\* records than one transaction carries.
C11_Witness ==
  /\ closedEvent # 0
  /\ nodes = "lastNodes"
  /\ Len(lastNodes.created) + Len(lastNodes.modified) + Len(lastNodes.deleted) > MaxNodes

\* C14: the closed-ledger index published on a ledger-closed event reporting
\* L is L - 1, whatever the accumulator's ledgerIndex is.
C14_PublishedIndexIsOneLess ==
  ledgerIndex = IF closedEvent = 0 THEN <<>> ELSE <<closedEvent - 1>>

\* The newest index was reported while the accumulator stood at another index
\* than the one published.
C14_Witness ==
  /\ closedEvent = MaxLedger
  /\ ledgerIndex = <<MaxLedger - 1>>
  /\ lastNodes.ledgerIndex # MaxLedger - 1

\* C12: for any snapshot and any entry-type name the classifier returns, for
\* each of created, modified and deleted, exactly the records of that
\* collection whose type is the name, in the collection's order; a name no
\* record has yields three empty lists; every record falls under exactly one
\* name.
Position(coll, r) == CHOOSE p \in 1..Len(coll) : coll[p] = r

C12_ClassifierFilters ==
  /\ result.done =>
       \A k \in Kinds :
         \A out \in {result.value[k]}, coll \in {Published[k]} :
           /\ Records(out) = {r \in Records(coll) : r.LedgerEntryType = arg}
           /\ Len(out) = Cardinality(Records(out))
           /\ \A i, j \in 1..Len(out) :
                i < j => Position(coll, out[i]) < Position(coll, out[j])
           /\ (\A r \in Records(coll) : r.LedgerEntryType # arg) => out = <<>>
  /\ \A k \in Kinds :
       \A r \in Records(Published[k]) :
         Cardinality({e \in EntryNames : r \in Records(nodesByLedgerEntryType(e)[k])}) = 1

\* Two of three created records have the type asked for; another kind has none.
C12_Witness ==
  /\ result.done
  /\ Len(Published.created) = 3
  /\ Len(result.value.created) = 2
  /\ Published.modified # <<>>
  /\ result.value.modified = <<>>

\* C13: every affected node of a transaction with metadata is projected into
\* exactly one record, in the bucket of its tag, carrying its entry type and
\* identity; none is dropped, duplicated or put elsewhere, and nodes of the
\* same kind keep their relative order.
Tagged(ns, k) == {i \in 1..Len(ns) : ns[i].tag = TagOf(k)}

C13_ExtractionProjectsEachNode ==
  result.done =>
    \A ns \in {arg.AffectedNodes} :
      /\ \A k \in Kinds :
           \A out \in {result.value[k]} :
             /\ Len(out) = Cardinality(Tagged(ns, k))
             /\ \E f \in [1..Len(out) -> Tagged(ns, k)] :
                  /\ \A i, j \in 1..Len(out) : i < j => f[i] < f[j]
                  /\ \A i \in 1..Len(out) :
                       out[i] = [LedgerEntryType |-> ns[f[i]].LedgerEntryType,
                                 index |-> ns[f[i]].LedgerIndex]
      /\ Len(result.value.created) + Len(result.value.modified)
           + Len(result.value.deleted) = Len(ns)

\* Two different nodes of one kind were extracted, in their order, beside a
\* transaction's other kinds being empty.
C13_Witness ==
  /\ result.done
  /\ Len(result.value.deleted) = 2
  /\ result.value.deleted[1] # result.value.deleted[2]
  /\ result.value.deleted[1].index = arg.AffectedNodes[1].LedgerIndex

\* C15: the stored entry-type list holds no name of the ignore-list and keeps
\* the not-yet-supported names the catalog has; those are removed only from
\* the displayed list, which is the catalog minus both lists; the
\* accumulator's collections are filtered by neither list.
IgnoredNames == {"Invalid", "Any", "Child", "Nickname", "Contract", "GeneratorMap"}
NotYetSupportedNames ==
  {"Bridge", "XChainOwnedClaimID", "XChainOwnedCreateAccountClaimID", "DID"}

Elements(list) == {list[i] : i \in 1..Len(list)}

\* sub holds its names once each, in the order they have in list.
KeepsOrderOf(sub, list) ==
  /\ Len(sub) = Cardinality(Elements(sub))
  /\ \A i, j \in 1..Len(sub) :
       i < j => \E p, q \in 1..Len(list) : p < q /\ list[p] = sub[i] /\ list[q] = sub[j]

C15_CatalogFiltering ==
  /\ catalog.received =>
       /\ Elements(ledgerEntries) \cap IgnoredNames = {}
       /\ Elements(ledgerEntries) = Elements(catalog.names) \ IgnoredNames
       /\ KeepsOrderOf(ledgerEntries, catalog.names)
       /\ Elements(DisplayedEntries) =
            Elements(catalog.names) \ (IgnoredNames \cup NotYetSupportedNames)
       /\ KeepsOrderOf(DisplayedEntries, catalog.names)
  /\ \A k \in Kinds : Ids(lastNodes[k]) = hiEffects[k]

\* The catalog had an ignored and a not-yet-supported name, the latter is
\* stored and not displayed, and the accumulator holds records of both lists.
C15_Witness ==
  /\ catalog.received
  /\ Elements(catalog.names) \cap IgnoredNames # {}
  /\ Elements(ledgerEntries) \cap NotYetSupportedNames # {}
  /\ Elements(DisplayedEntries) \cap NotYetSupportedNames = {}
  /\ \E r \in Records(lastNodes.created) : r.LedgerEntryType \in NotYetSupportedNames
  /\ \E r \in Records(lastNodes.created) : r.LedgerEntryType \in IgnoredNames

\* C16: uniqNodes returns one record per distinct identity of its input,
\* ordered by the first occurrence of each identity, each record being the
\* last record of the input with that identity.
FirstOf(ns, id) == CHOOSE p \in 1..Len(ns) : ns[p].index = id /\ \A q \in 1..(p - 1) : ns[q].index # id
LastOf(ns, id) == CHOOSE p \in 1..Len(ns) : ns[p].index = id /\ \A q \in (p + 1)..Len(ns) : ns[q].index # id

C16_UniqNodesLastWinsFirstOrder ==
  result.done =>
    \A ns \in {arg}, out \in {result.value} :
      /\ Ids(out) = Ids(ns)
      /\ Len(out) = Cardinality(Ids(ns))
      /\ \A i \in 1..Len(out) : out[i] = ns[LastOf(ns, out[i].index)]
      /\ \A i, j \in 1..Len(out) :
           i < j => FirstOf(ns, out[i].index) < FirstOf(ns, out[j].index)

\* An identity came first and last with different entry types around another
\* identity: the later record stands in the first one's place.
C16_Witness ==
  /\ result.done
  /\ Len(arg) = 3
  /\ arg[1].index = arg[3].index
  /\ arg[1].LedgerEntryType # arg[3].LedgerEntryType
  /\ arg[2].index # arg[1].index
  /\ result.value = <<arg[3], arg[2]>>

\* C17: on a stream whose transactions with metadata arrive with
\* non-decreasing ledger indices, the accumulator's ledgerIndex is the newest
\* index delivered and, for each kind, the identities in the accumulator's
\* collection are exactly the identities of that kind's effects over the
\* delivered transactions that carried that index.
C17_InOrderAccumulatorIsCurrentLedger ==
  /\ lastNodes.ledgerIndex = hiIndex
  /\ \A k \in Kinds : Ids(lastNodes[k]) = hiEffects[k]

\* After a close, the accumulator is at the newest ledger and holds one
\* created and one deleted effect of different identities.
C17_Witness ==
  /\ lastNodes.ledgerIndex = MaxLedger
  /\ hiIndex = MaxLedger
  /\ Len(lastNodes.created) = 1
  /\ Len(lastNodes.deleted) = 1
  /\ lastNodes.modified = <<>>
  /\ hiEffects.created # hiEffects.deleted
  /\ closedEvent # 0

\* C18: once the cleanup of a run of the effect has run, that run's handlers
\* are not registered on the client, no later step changes that run's
\* accumulator or publishes from it, and at most one run's pair of handlers
\* is registered at any time.
C18_CleanupUnregisters ==
  /\ [](\A i \in 1..MaxEffects : Cleaned(i) => ~Registered(i))
  /\ [](Len(listeners) <= 1)
  /\ [][\A i \in 1..MaxEffects :
          Cleaned(i) =>
            /\ effects'[i].lastNodes = effects[i].lastNodes
            /\ publishedBy' # publishedBy => publishedBy' # i]_vars

====
